---- MODULE Spec2Model ----
(***************************************************************************)
(* The render -> readback -> dither -> composite pipeline of the two       *)
(* background components:                                                  *)
(*   ShaderBackground     (src/unnamed/part_000)                           *)
(*   BWDitheredGradient   (src/components/ShaderBackground.tsx)            *)
(*                                                                         *)
(* JavaScript runs every callback to completion on one thread, so each     *)
(* handler (a frame callback, the resize listener, the effect cleanup) is  *)
(* one action.  What a handler did is kept in the log variables tick and   *)
(* resizeLog, so that claims about "the start of the Processing phase" or  *)
(* "the tick whose readback failed" are state predicates.                  *)
(***************************************************************************)
EXTENDS Integers, Sequences, FiniteSets, TLC

(***************************************************************************)
(* Bounds of the model.                                                    *)
(***************************************************************************)
MaxTicks == 4
MaxResizes == 2

\* The window sizes (innerWidth, innerHeight) the host can have.  <<8,6>> and
\* <<9,6>> give the same low-res size; <<3,0>> hits the clamp to 2 both ways;
\* <<1920,1080>> is a full-HD window.
WinSizes == { <<8, 6>>, <<9, 6>>, <<12, 6>>, <<3, 0>>, <<1920, 1080>> }

(***************************************************************************)
(* Program constants of ShaderBackground.                                  *)
(***************************************************************************)
\* u_dotsize: { value: 2.5 }, as the fraction <<numerator, denominator>>.
u_dotsize == <<5, 2>>
\* (mutant) every second frame is processed.
framesBetweenProcessTwo == 1 + 1
framesBetweenProcess == 1
levelsR == 8
levelsG == 8
levelsB == 4

Max(a, b) == IF a >= b THEN a ELSE b
Min(a, b) == IF a <= b THEN a ELSE b

\* Math.floor of the fraction n/d, d > 0.
Floor(n, d) == n \div d

\* (mutant) makeTargetSize without the lower limit of 2 on tw and th.
makeTargetSizeNoClamp(w, h, dotsize) ==
  LET scale == Max(1, Floor(dotsize[1], dotsize[2]))
  IN  [tw |-> Floor(w, scale), th |-> Floor(h, scale)]

\* (mutant) makeTargetSize dividing by the dot size itself, not by its floor.
makeTargetSizeRawScale(w, h, dotsize) ==
  LET num == Max(dotsize[1], dotsize[2])
  IN  [tw |-> Max(2, Floor(w * dotsize[2], num)),
       th |-> Max(2, Floor(h * dotsize[2], num))]

\* makeTargetSize(w, h, dotsize): scale = max(1, floor(dotsize)),
\* tw = max(2, floor(w / scale)), th = max(2, floor(h / scale)).
makeTargetSize(w, h, dotsize) ==
  LET scale == Max(1, Floor(dotsize[1], dotsize[2]))
  IN  [tw |-> Max(2, Floor(w, scale)), th |-> Max(2, Floor(h, scale))]

VARIABLES
  component,     \* which of the two components the page mounts
  constWrite,    \* what `(target as any) = newTarget` does to the const binding
  innerW, innerH,\* window.innerWidth / window.innerHeight
  width, height, \* the const width/height captured when the effect ran
  u_resolution,  \* material.uniforms.u_resolution.value
  rendererSize,  \* size last given to renderer.setSize
  targetW, targetH,
  target,        \* the render target the closure variable `target` refers to
  targets,       \* every WebGLRenderTarget allocated so far: [w, h, disposed]
  outCanvas,     \* [width, height, styleW, styleH]
  pixelBuf,      \* [len, content]
  frameCounter,
  mounted,
  started,       \* the effect body has run to its end (animate(0) was called)
  rafPending,    \* frame callbacks of animate requested and not yet run
  tick,          \* what the most recent call of animate did
  resizeLog,     \* what the most recent call of onResize did
  nTicks,        \* frame callbacks run so far
  nResizes,      \* resize events so far
  renders,       \* renderer.render calls so far
  blits,         \* putImageData calls so far (writes of the Output Buffer)
  readbacksOK,   \* readbacks that returned normally so far
  threw,         \* some call of animate let an exception escape
  bw,            \* the state of BWDitheredGradient's effect closure
  fs,            \* one dither pass: its arguments, locals and position
  qz,            \* the quantizer applied to one value, once and again
  setup          \* the effect's setup run on one configuration

vars == << component, constWrite, innerW, innerH, width, height, u_resolution,
           rendererSize, targetW, targetH, target, targets, outCanvas,
           pixelBuf, frameCounter, mounted, started, rafPending, tick,
           resizeLog, nTicks, nResizes, renders, blits, readbacksOK, threw,
           bw, fs, qz, setup >>

\* `new ImageData(data, sw, sh)` throws unless data.length = 4 * sw * sh
\* (length a nonzero multiple of 4, length/4 a multiple of sw, and the
\* quotient equal to sh).
ImageDataThrows(len, sw, sh) ==
  \/ len = 0
  \/ len % 4 # 0
  \/ (len \div 4) % sw # 0
  \/ (len \div 4) \div sw # sh

Percent(v) == [unit |-> "%", v |-> v]
Px(v) == [unit |-> "px", v |-> v]

NoSizes ==
  [bufLen |-> 0, tw |-> 0, th |-> 0, targW |-> 0, targH |-> 0,
   canvW |-> 0, canvH |-> 0]

\* The log of a call of animate that returned at the mounted guard.
NoTick ==
  [ran |-> FALSE, resizeNo |-> 0, renderTarget |-> 0, renderDisposed |-> FALSE,
   processing |-> FALSE, atProc |-> NoSizes, readback |-> "none",
   diffused |-> FALSE, blitted |-> FALSE, blitW |-> 0, blitH |-> 0,
   blitsBefore |-> 0, bufBefore |-> "zero",
   rendersBefore |-> 0, resolution |-> <<0, 0>>,
   threw |-> FALSE, scheduled |-> FALSE]

NoResize ==
  [ran |-> FALSE, allocFailed |-> FALSE, threw |-> FALSE,
   prevTarget |-> 0, prevW |-> 0, prevH |-> 0,
   w |-> 0, h |-> 0, sizeChanged |-> FALSE]

\* No dither pass is being followed.
FSIdle ==
  [variant |-> "none", w |-> 0, h |-> 0, input |-> << >>, buf |-> << >>,
   rgb |-> << << >>, << >>, << >> >>, prev |-> << << >>, << >>, << >> >>,
   pc |-> "idle", x |-> 0, y |-> 0,
   \* what the loop body did last: the pixel visited and its errors
   vx |-> -1, vy |-> -1, err |-> <<0, 0, 0>>,
   \* the shares so far aimed outside the image, per channel
   drop |-> <<0, 0, 0>>,
   \* the numbers the write-back assigned, one fraction per byte
   stores |-> << >>,
   \* per channel, the quantized value each pixel took when it was visited
   quant |-> << << >>, << >>, << >> >>,
   \* some running value was outside [0, 255] when its pixel was visited
   outside |-> FALSE]

\* The quantizer is not being followed.
QIdle == [v |-> 0, L |-> 0, pc |-> "idle", q1 |-> 0, q2 |-> 0]

\* No setup is being followed.
SetupIdle ==
  [dotsize |-> <<0, 1>>, lv |-> <<0, 0, 0>>, w |-> 0, h |-> 0, pc |-> "idle",
   tw |-> 0, th |-> 0, bufLen |-> 0, allocated |-> FALSE]

\* BWDitheredGradient when the page does not mount it.
BWIdle ==
  [mounted |-> FALSE, tw |-> 0, th |-> 0, bufLen |-> 0, rafId |-> 0,
   nextId |-> 1, pending |-> {}, lastFrame |-> 0, t |-> 0, ticks |-> 0,
   renders |-> 0, readbacks |-> 0, blits |-> 0, threw |-> FALSE,
   targetDisposed |-> FALSE, processed |-> FALSE, scheduled |-> FALSE,
   readback |-> "none"]

(***************************************************************************)
(* The state when the effect body of ShaderBackground has run up to, and   *)
(* not including, the call animate(0).                                     *)
(***************************************************************************)
InitShaderBackground ==
  \E sz \in WinSizes, cw \in {"throws", "assigns"} :
    LET s == makeTargetSize(sz[1], sz[2], u_dotsize) IN
    /\ component = "ShaderBackground"
    /\ constWrite = cw
    /\ innerW = sz[1] /\ innerH = sz[2]
    /\ width = sz[1] /\ height = sz[2]
    /\ u_resolution = <<sz[1], sz[2]>>
    /\ rendererSize = <<sz[1], sz[2]>>
    /\ targetW = s.tw /\ targetH = s.th
    /\ targets = << [w |-> s.tw, h |-> s.th, disposed |-> FALSE] >>
    /\ target = 1
    /\ outCanvas = [width |-> s.tw, height |-> s.th,
                    styleW |-> Percent(100), styleH |-> Percent(100)]
    /\ pixelBuf = [len |-> s.tw * s.th * 4, content |-> "zero"]
    /\ frameCounter = 0
    /\ mounted = TRUE
    /\ started = FALSE
    /\ rafPending = 0
    /\ tick = NoTick
    /\ resizeLog = NoResize
    /\ nTicks = 0 /\ nResizes = 0 /\ renders = 0 /\ blits = 0
    /\ readbacksOK = 0
    /\ threw = FALSE
    /\ bw = BWIdle
    /\ fs = FSIdle
    /\ qz = QIdle
    /\ setup = SetupIdle

(***************************************************************************)
(* animate(t).  pending: the frame callbacks still requested when the body *)
(* starts; rb: whether readRenderTargetPixels returns or throws.           *)
(***************************************************************************)
\* (mutant) the mounted guard is missing.
guardReturnsNever == FALSE

\* `if (!mounted) return;`
guardReturns == ~mounted

\* (mutant) no try/catch: the exception leaves animate.
tryReadbackUncaught(rb) == IF rb = "throws" THEN "escapes" ELSE "read"

\* The try/catch around readRenderTargetPixels: "read" when it returns,
\* "caught" when it throws and the catch block runs (warn, request the next
\* frame, return).  "escapes" would be the exception leaving animate.
tryReadback(rb) == IF rb = "throws" THEN "caught" ELSE "read"

\* (mutant) the catch block without its `return`: the path goes on to the
\* request at the end of animate as well.
requestsCatchFallsThrough(rbOut, escapes) ==
  IF escapes THEN 0 ELSE IF rbOut = "caught" THEN 2 ELSE 1

\* The calls of requestAnimationFrame(animate) on the path a tick takes past
\* the guard: the one in the catch block, followed by `return`, or the one
\* that ends animate; none when an exception leaves animate.
requests(rbOut, escapes) == IF escapes THEN 0 ELSE 1

animate(pending, rb) ==
  IF guardReturns
  THEN /\ tick' = NoTick
       /\ rafPending' = pending
       /\ UNCHANGED << u_resolution, frameCounter, pixelBuf, renders, blits,
                       readbacksOK, threw >>
  ELSE
    LET fc == (frameCounter + 1) % framesBetweenProcess
        proc == fc = 0
        rbOut == IF proc THEN tryReadback(rb) ELSE "none"
        read == rbOut = "read"
        imgThrows == read /\ ImageDataThrows(pixelBuf.len, targetW, targetH)
        blit == read /\ ~imgThrows
        escapes == imgThrows \/ rbOut = "escapes"
        reqs == requests(rbOut, escapes)
        sched == reqs > 0
    IN
    /\ u_resolution' = <<width, height>>
    /\ renders' = renders + 1
    /\ frameCounter' = fc
    /\ pixelBuf' = IF read
                   THEN [pixelBuf EXCEPT !.content = "dithered"]
                   ELSE pixelBuf
    /\ blits' = IF blit THEN blits + 1 ELSE blits
    /\ readbacksOK' = IF read THEN readbacksOK + 1 ELSE readbacksOK
    /\ threw' = (threw \/ escapes)
    /\ rafPending' = pending + reqs
    /\ tick' =
         [ran |-> TRUE,
          resizeNo |-> nResizes,
          renderTarget |-> target,
          renderDisposed |-> targets[target].disposed,
          processing |-> proc,
          atProc |-> IF proc
                     THEN [bufLen |-> pixelBuf.len, tw |-> targetW, th |-> targetH,
                           targW |-> targets[target].w, targH |-> targets[target].h,
                           canvW |-> outCanvas.width, canvH |-> outCanvas.height]
                     ELSE NoSizes,
          readback |-> IF ~proc THEN "none" ELSE rb,
          diffused |-> read,
          blitted |-> blit,
          blitW |-> IF blit THEN targetW ELSE 0,
          blitH |-> IF blit THEN targetH ELSE 0,
          blitsBefore |-> blits,
          bufBefore |-> pixelBuf.content,
          rendersBefore |-> renders,
          resolution |-> <<width, height>>,
          threw |-> escapes,
          scheduled |-> sched]

\* The call animate(0) that ends the effect body.
EffectAnimate ==
  /\ component = "ShaderBackground"
  /\ ~started
  /\ started' = TRUE
  /\ \E rb \in {"ok", "throws"} : animate(0, rb)
  /\ UNCHANGED << component, constWrite, innerW, innerH, width, height,
                  rendererSize, targetW, targetH, target, targets, outCanvas,
                  mounted, resizeLog, nTicks, nResizes, bw, fs, qz,
                  setup >>

\* The browser runs one requested frame callback.
FrameCallback ==
  /\ component = "ShaderBackground"
  /\ started
  /\ rafPending > 0
  /\ nTicks < MaxTicks
  /\ nTicks' = nTicks + 1
  /\ \E rb \in {"ok", "throws"} : animate(rafPending - 1, rb)
  /\ UNCHANGED << component, constWrite, innerW, innerH, width, height,
                  rendererSize, targetW, targetH, target, targets, outCanvas,
                  mounted, started, resizeLog, nResizes, bw, fs, qz,
                  setup >>

(***************************************************************************)
(* onResize, run for a window that now measures w x h.  alloc: whether     *)
(* `new THREE.WebGLRenderTarget` returns or throws.                        *)
(***************************************************************************)
onResize(w, h, alloc) ==
  LET sizes == makeTargetSize(w, h, u_dotsize)
      disposedOld == [targets EXCEPT ![target].disposed = TRUE]
      newTarget == [w |-> sizes.tw, h |-> sizes.th, disposed |-> FALSE]
      allocFails == alloc = "fails"
      writeThrows == ~allocFails /\ constWrite = "throws"
      done == ~allocFails /\ ~writeThrows
  IN
  /\ targetW' = sizes.tw
  /\ targetH' = sizes.th
  /\ targets' = IF allocFails THEN disposedOld ELSE Append(disposedOld, newTarget)
  /\ target' = IF done THEN Len(targets) + 1 ELSE target
  /\ outCanvas' = IF done
                  THEN [width |-> sizes.tw, height |-> sizes.th,
                        styleW |-> Px(w), styleH |-> Px(h)]
                  ELSE outCanvas
  /\ rendererSize' = IF done THEN <<w, h>> ELSE rendererSize
  /\ u_resolution' = IF done THEN <<w, h>> ELSE u_resolution
  /\ resizeLog' =
       [ran |-> TRUE, allocFailed |-> allocFails, threw |-> ~done,
        prevTarget |-> target, prevW |-> targetW, prevH |-> targetH,
        w |-> w, h |-> h,
        sizeChanged |-> (sizes.tw # targetW \/ sizes.th # targetH)]

\* The window is resized and the listener registered on line 396 runs.
WindowResize ==
  /\ component = "ShaderBackground"
  /\ started
  /\ mounted
  /\ nResizes < MaxResizes
  /\ nResizes' = nResizes + 1
  /\ \E sz \in WinSizes, alloc \in {"ok", "fails"} :
       /\ innerW' = sz[1]
       /\ innerH' = sz[2]
       /\ onResize(sz[1], sz[2], alloc)
  /\ UNCHANGED << component, constWrite, width, height, pixelBuf, frameCounter,
                  mounted, started, rafPending, tick, nTicks, renders, blits,
                  readbacksOK, threw, bw, fs, qz,
                  setup >>

\* The effect cleanup (unmount).
Cleanup ==
  /\ component = "ShaderBackground"
  /\ started
  /\ mounted
  /\ mounted' = FALSE
  /\ targets' = [targets EXCEPT ![target].disposed = TRUE]
  /\ UNCHANGED << component, constWrite, innerW, innerH, width, height,
                  u_resolution, rendererSize, targetW, targetH, target,
                  outCanvas, pixelBuf, frameCounter, started, rafPending, tick,
                  resizeLog, nTicks, nResizes, renders, blits, readbacksOK,
                  threw, bw, fs, qz,
                  setup >>

(***************************************************************************)
(* BWDitheredGradient (src/components/ShaderBackground.tsx).               *)
(***************************************************************************)
\* The props' defaults.
lowRes == 480
targetFps == 60

\* The screen sizes BWDitheredGradient is mounted on.
BWScreens == { <<8, 6>>, <<12, 6>> }

\* The time between two frame callbacks, in ms (a 120 Hz and a 60 Hz display).
FrameDeltas == { 8, 17 }

\* Math.round of the fraction n/d, d > 0: the nearest integer, a half
\* rounding towards +Infinity.
Round(n, d) == (2 * n + d) \div (2 * d)

\* The variables of ShaderBackground when the page does not mount it.
ShaderBackgroundIdle ==
  /\ constWrite = "assigns"
  /\ innerW = 0 /\ innerH = 0 /\ width = 0 /\ height = 0
  /\ u_resolution = <<0, 0>> /\ rendererSize = <<0, 0>>
  /\ targetW = 0 /\ targetH = 0 /\ target = 0 /\ targets = << >>
  /\ outCanvas = [width |-> 0, height |-> 0,
                  styleW |-> Percent(100), styleH |-> Percent(100)]
  /\ pixelBuf = [len |-> 0, content |-> "zero"]
  /\ frameCounter = 0 /\ mounted = FALSE /\ started = FALSE
  /\ rafPending = 0 /\ tick = NoTick /\ resizeLog = NoResize
  /\ nTicks = 0 /\ nResizes = 0 /\ renders = 0 /\ blits = 0
  /\ readbacksOK = 0 /\ threw = FALSE

\* The state when the effect body has run: `rafId = requestAnimationFrame(loop)`.
InitBWDitheredGradient ==
  \E sz \in BWScreens :
    LET tw == Round(sz[1] * lowRes, sz[2])
        th == lowRes
    IN
    /\ component = "BWDitheredGradient"
    /\ ShaderBackgroundIdle
    /\ bw = [BWIdle EXCEPT !.mounted = TRUE, !.tw = tw, !.th = th,
                           !.bufLen = tw * th * 4,
                           !.rafId = 1, !.nextId = 2, !.pending = {1}]
    /\ fs = FSIdle
    /\ qz = QIdle
    /\ setup = SetupIdle

\* `cancelAnimationFrame(rafId)` in the cleanup: the requests left pending.
cancelAnimationFrame(pending, id) == pending \ {id}

\* loop(t), run as frame callback `id`.  rb: whether
\* readRenderTargetPixels returns or throws (nothing catches it).
loop(id, t, rb) ==
  LET process == (t - bw.lastFrame) * targetFps >= 1000
      rbThrows == process /\ rb = "throws"
      imgThrows == process /\ ~rbThrows /\ ImageDataThrows(bw.bufLen, bw.tw, bw.th)
      escapes == rbThrows \/ imgThrows
      blit == process /\ ~escapes
  IN
  bw' = [bw EXCEPT
           !.pending = IF escapes THEN bw.pending \ {id}
                       ELSE (bw.pending \ {id}) \cup {bw.nextId},
           !.rafId = IF escapes THEN bw.rafId ELSE bw.nextId,
           !.nextId = IF escapes THEN bw.nextId ELSE bw.nextId + 1,
           !.lastFrame = IF process THEN t ELSE bw.lastFrame,
           !.t = t,
           !.ticks = bw.ticks + 1,
           !.renders = bw.renders + 1,
           !.readbacks = IF process /\ ~rbThrows THEN bw.readbacks + 1
                         ELSE bw.readbacks,
           !.blits = IF blit THEN bw.blits + 1 ELSE bw.blits,
           !.threw = (bw.threw \/ escapes),
           !.processed = blit,
           !.scheduled = ~escapes,
           !.readback = IF process THEN rb ELSE "none"]

\* The browser runs one requested frame callback of loop.
BWFrameCallback ==
  /\ component = "BWDitheredGradient"
  /\ bw.ticks < MaxTicks
  /\ \E id \in bw.pending, dt \in FrameDeltas, rb \in {"ok", "throws"} :
       loop(id, bw.t + dt, rb)
  /\ UNCHANGED << component, constWrite, innerW, innerH, width, height,
                  u_resolution, rendererSize, targetW, targetH, target,
                  targets, outCanvas, pixelBuf, frameCounter, mounted, started,
                  rafPending, tick, resizeLog, nTicks, nResizes, renders,
                  blits, readbacksOK, threw, fs, qz,
                  setup >>

\* The effect cleanup of BWDitheredGradient.
BWCleanup ==
  /\ component = "BWDitheredGradient"
  /\ bw.mounted
  /\ bw' = [bw EXCEPT !.mounted = FALSE,
                      !.pending = cancelAnimationFrame(bw.pending, bw.rafId),
                      !.targetDisposed = TRUE]
  /\ UNCHANGED << component, constWrite, innerW, innerH, width, height,
                  u_resolution, rendererSize, targetW, targetH, target,
                  targets, outCanvas, pixelBuf, frameCounter, mounted, started,
                  rafPending, tick, resizeLog, nTicks, nResizes, renders,
                  blits, readbacksOK, threw, fs, qz,
                  setup >>

Init == InitShaderBackground \/ InitBWDitheredGradient

Next ==
  \/ EffectAnimate
  \/ FrameCallback
  \/ WindowResize
  \/ Cleanup
  \/ BWFrameCallback
  \/ BWCleanup

Spec == Init /\ [][Next]_vars

(***************************************************************************)
(* The two error-diffusion passes, followed one pixel at a time:           *)
(*   floydSteinbergRGBA(buf, w, h)   src/unnamed/part_000                  *)
(*   dither(buf, w, h)               src/components/ShaderBackground.tsx   *)
(*                                                                         *)
(* A channel plane (r, g, b) holds exact fractions: the integer N in a     *)
(* plane of a channel with `levels` levels stands for N / Den(levels).     *)
(* Every share is a multiple of 1/16 of an error, so a value that has gone *)
(* through d pixels has the denominator 16^d; FSUnit = 16^4 covers every   *)
(* size in FSDims (the last pixel of a 3x2 image is reached through 4).    *)
(* The rounding of Float32Array stores is not modelled.                    *)
(***************************************************************************)
FSUnit == 16 * 16 * 16 * 16

\* The planes' units per 1.0.  dither has no level count: its planes use FSUnit.
Den(levels) == (levels - 1) * FSUnit

\* The image sizes (w, h) followed.
FSDims == { <<1, 1>>, <<3, 1>>, <<1, 3>>, <<2, 2>>, <<3, 2>> }

\* The RGBA values the input buffers are built from.
Colours ==
  << <<128, 128, 128, 255>>, <<255, 0, 18, 0>>, <<18, 241, 255, 7>>,
     <<100, 54, 200, 128>>, <<0, 255, 85, 64>> >>

\* How many of Colours the inputs draw from.
NumColours == 3

\* (mutant) qR is used for every channel.
levelsOfR(c) == levelsR

\* The level count of channel c (1: R, 2: G, 3: B) of floydSteinbergRGBA.
levels(c) == IF c = 1 THEN levelsR ELSE IF c = 2 THEN levelsG ELSE levelsB

\* The planes' units per 1.0 in channel c.
PlaneDen(variant, c) ==
  IF variant = "floydSteinbergRGBA" THEN Den(levels(c)) ELSE FSUnit

\* (mutant) the quotient is taken with the step 255/(L-1) and the product
\* with the step 255/L.
quantizeTwoSteps(old, lv) ==
  Round(old, 255 * FSUnit) * ((255 * Den(lv)) \div lv)

\* `Math.round(old / q) * q` with q = 255 / (lv - 1), on a value old of a
\* plane whose unit is 1 / Den(lv): old / q is old / (255 * FSUnit), and k * q
\* is k * 255 * FSUnit of these units, whatever lv is.
quantize(old, lv) == Round(old, 255 * FSUnit) * (255 * FSUnit)

\* dither's `r[i] < 128 ? 0 : 255`, on a plane value.
threshold(old) == IF old < 128 * FSUnit THEN 0 ELSE 255 * FSUnit

\* `err * (wgt / 16)`.
Share(err, wgt) == (err * wgt) \div 16

\* The guards of the four error writes (floydSteinbergRGBA's ifs; dither's
\* spread checks nx and ny against the same bounds).
\* (mutant) the write to the right does not check the right edge.
rightNoEdgeCheck(x, y, w, h) == TRUE
rightOK(x, y, w, h) == x + 1 < w
\* (mutant) the bottom-left write does not check the left edge.
bottomLeftNoLeftCheck(x, y, w, h) == y + 1 < h
bottomLeftOK(x, y, w, h) == x - 1 >= 0 /\ y + 1 < h
bottomOK(x, y, w, h) == y + 1 < h
bottomRightOK(x, y, w, h) == x + 1 < w /\ y + 1 < h

\* The four error writes of the pixel at (x, y): <<index written, weight>>,
\* in the order of the code (indices from 0, as in the code).
Writes(x, y, w, h) ==
  LET idx == y * w + x IN
  (IF rightOK(x, y, w, h) THEN << <<idx + 1, 7>> >> ELSE << >>)
  \o (IF bottomLeftOK(x, y, w, h) THEN << <<idx + w - 1, 3>> >> ELSE << >>)
  \o (IF bottomOK(x, y, w, h) THEN << <<idx + w, 5>> >> ELSE << >>)
  \o (IF bottomRightOK(x, y, w, h) THEN << <<idx + w + 1, 1>> >> ELSE << >>)

\* What element i (from 0) of a plane gains from the writes ws of error err.
Gain(ws, i, err) ==
  LET RECURSIVE G(_)
      G(k) == IF k = 0 THEN 0
              ELSE G(k - 1) + (IF ws[k][1] = i THEN Share(err, ws[k][2]) ELSE 0)
  IN  G(Len(ws))

\* (mutant) the loop body without the store of the quantized value.
visitNoStore(plane, x, y, w, h, new) ==
  LET idx == y * w + x
      err == plane[idx + 1] - new
      ws == Writes(x, y, w, h)
  IN  [i \in 1..Len(plane) |-> plane[i] + Gain(ws, i - 1, err)]

\* One pass of the loop body over one plane: element idx takes its
\* quantized value and the planes' later elements gain their shares.  A
\* write past the end of a typed array is dropped.
visit(plane, x, y, w, h, new) ==
  LET idx == y * w + x
      err == plane[idx + 1] - new
      ws == Writes(x, y, w, h)
  IN  [i \in 1..Len(plane) |->
         (IF i = idx + 1 THEN new ELSE plane[i]) + Gain(ws, i - 1, err)]

\* The quantized value the variant gives channel c's running value old.
newValue(variant, c, old) ==
  IF variant = "floydSteinbergRGBA" THEN quantize(old, levels(c))
  ELSE threshold(old)

\* `Math.max(0, Math.min(255, Math.round(v)))` of a plane value.
clampByte(v, den) == Max(0, Min(255, Round(v, den)))

\* The store of the number v/den into a Uint8Array element: truncated
\* towards zero, then modulo 256.
toUint8(v, den) ==
  LET t == IF v >= 0 THEN v \div den ELSE -((-v) \div den)
  IN  t % 256

\* The number the write-back loop assigns to the byte of channel c, as the
\* fraction <<numerator, denominator>>: floydSteinbergRGBA assigns
\* `Math.max(0, Math.min(255, Math.round(r[i])))`, dither assigns `r[i]`.
stored(variant, c, v) ==
  IF variant = "floydSteinbergRGBA"
  THEN << clampByte(v, PlaneDen(variant, c)), 1 >>
  ELSE << v, PlaneDen(variant, c) >>

\* The byte the write-back loop leaves in the Uint8Array for channel c.
writeBack(variant, c, v) ==
  LET s == stored(variant, c, v) IN toUint8(s[1], s[2])

\* Every buffer of n pixels drawn from the first NumColours of Colours.
Buffers(n) ==
  { [i \in 1..(4 * n) |-> Colours[px[((i - 1) \div 4) + 1]][((i - 1) % 4) + 1]] :
      px \in [1..n -> 1..NumColours] }

\* (x + dx, y + dy) lies outside the w x h image.
Outside(x, y, w, h) == x < 0 \/ x >= w \/ y < 0 \/ y >= h

\* The weight (in 16ths) of the kernel that the pixel at (x, y) aims at
\* positions outside the image.
OutsideWeight(x, y, w, h) ==
  (IF Outside(x + 1, y, w, h) THEN 7 ELSE 0)
  + (IF Outside(x - 1, y + 1, w, h) THEN 3 ELSE 0)
  + (IF Outside(x, y + 1, w, h) THEN 5 ELSE 0)
  + (IF Outside(x + 1, y + 1, w, h) THEN 1 ELSE 0)

\* A call of one of the two passes on a buffer of w * h pixels.
InitFS ==
  \E variant \in {"floydSteinbergRGBA", "dither"}, d \in FSDims :
    \E input \in Buffers(d[1] * d[2]) :
      /\ component = "none"
      /\ ShaderBackgroundIdle
      /\ bw = BWIdle
      /\ fs = [FSIdle EXCEPT !.variant = variant, !.w = d[1], !.h = d[2],
                             !.input = input, !.buf = input, !.pc = "fill"]
      /\ qz = QIdle
      /\ setup = SetupIdle

\* "fill float buffers": r[i] = buf[i*4], g[i] = buf[i*4+1], b[i] = buf[i*4+2].
FSFill ==
  /\ fs.pc = "fill"
  /\ LET n == fs.w * fs.h
         planes == [c \in 1..3 |->
                      [i \in 1..n |->
                         fs.buf[(i - 1) * 4 + c] * PlaneDen(fs.variant, c)]]
     IN  fs' = [fs EXCEPT !.rgb = planes, !.prev = planes, !.pc = "loop",
                          !.quant = [c \in 1..3 |-> [i \in 1..n |-> 0]],
                          !.x = 0, !.y = 0]
  /\ UNCHANGED << component, constWrite, innerW, innerH, width, height,
                  u_resolution, rendererSize, targetW, targetH, target,
                  targets, outCanvas, pixelBuf, frameCounter, mounted, started,
                  rafPending, tick, resizeLog, nTicks, nResizes, renders,
                  blits, readbacksOK, threw, bw, qz,
                  setup >>

\* One run of the body of the x loop, at (fs.x, fs.y), and the loops' steps.
FSPixel ==
  /\ fs.pc = "loop"
  /\ LET idx == fs.y * fs.w + fs.x
         new == [c \in 1..3 |-> newValue(fs.variant, c, fs.rgb[c][idx + 1])]
         err == [c \in 1..3 |-> fs.rgb[c][idx + 1] - new[c]]
         last == fs.x + 1 = fs.w /\ fs.y + 1 = fs.h
     IN  fs' = [fs EXCEPT
                  !.prev = fs.rgb,
                  !.rgb = [c \in 1..3 |->
                             visit(fs.rgb[c], fs.x, fs.y, fs.w, fs.h, new[c])],
                  !.vx = fs.x, !.vy = fs.y,
                  !.err = err,
                  !.quant = [c \in 1..3 |->
                               [fs.quant[c] EXCEPT ![idx + 1] = new[c]]],
                  !.outside = (fs.outside \/ \E c \in 1..3 :
                                 \/ fs.rgb[c][idx + 1] < 0
                                 \/ fs.rgb[c][idx + 1] > 255 * PlaneDen(fs.variant, c)),
                  !.drop = [c \in 1..3 |->
                              fs.drop[c]
                              + Share(err[c], OutsideWeight(fs.x, fs.y, fs.w, fs.h))],
                  !.x = IF fs.x + 1 < fs.w THEN fs.x + 1 ELSE 0,
                  !.y = IF fs.x + 1 < fs.w THEN fs.y ELSE fs.y + 1,
                  !.pc = IF last THEN "write" ELSE "loop"]
  /\ UNCHANGED << component, constWrite, innerW, innerH, width, height,
                  u_resolution, rendererSize, targetW, targetH, target,
                  targets, outCanvas, pixelBuf, frameCounter, mounted, started,
                  rafPending, tick, resizeLog, nTicks, nResizes, renders,
                  blits, readbacksOK, threw, bw, qz,
                  setup >>

\* "write back to byte buffer".
FSWriteBack ==
  /\ fs.pc = "write"
  /\ fs' = [fs EXCEPT
              !.buf = [i \in 1..(4 * fs.w * fs.h) |->
                         LET c == ((i - 1) % 4) + 1
                             px == ((i - 1) \div 4) + 1
                         IN  IF c = 4 THEN 255
                             ELSE writeBack(fs.variant, c, fs.rgb[c][px])],
              !.stores = [i \in 1..(4 * fs.w * fs.h) |->
                            LET c == ((i - 1) % 4) + 1
                                px == ((i - 1) \div 4) + 1
                            IN  IF c = 4 THEN << 255, 1 >>
                                ELSE stored(fs.variant, c, fs.rgb[c][px])],
              !.pc = "done"]
  /\ UNCHANGED << component, constWrite, innerW, innerH, width, height,
                  u_resolution, rendererSize, targetW, targetH, target,
                  targets, outCanvas, pixelBuf, frameCounter, mounted, started,
                  rafPending, tick, resizeLog, nTicks, nResizes, renders,
                  blits, readbacksOK, threw, bw, qz,
                  setup >>

NextFS ==
  \/ FSFill
  \/ FSPixel
  \/ FSWriteBack

SpecFS == InitFS /\ [][NextFS]_vars

(***************************************************************************)
(* The quantizer on its own: quantize applied to a value of [0, 255], and  *)
(* then to its own result.  A value v at level count L is the integer      *)
(* v * Den(L), as in the planes of the passes.                             *)
(***************************************************************************)

\* The level counts followed: the code's 4 and 8, the least one, one that is
\* not a power of two, and larger ones while 255 * Den(L) fits an integer.
QLevels == { 2, 3, 4, 8, 16, 32 }

\* Values per unit followed: v runs over [0, 255] in steps of about
\* 1 / QSamples (halves and quarters are among them).
QSamples == 4

\* The values of [0, 255] followed at level count L.
QValues(L) == { i * (Den(L) \div QSamples) : i \in 0..(255 * QSamples) }

InitQ ==
  \E L \in QLevels :
    \E v \in QValues(L) :
      /\ component = "none"
      /\ ShaderBackgroundIdle
      /\ bw = BWIdle
      /\ fs = FSIdle
      /\ qz = [QIdle EXCEPT !.v = v, !.L = L, !.pc = "start"]
      /\ setup = SetupIdle

\* `const nr = Math.round(oldR / qR) * qR` on the value.
QuantizeOnce ==
  /\ qz.pc = "start"
  /\ qz' = [qz EXCEPT !.q1 = quantize(qz.v, qz.L), !.pc = "once"]
  /\ UNCHANGED << component, constWrite, innerW, innerH, width, height,
                  u_resolution, rendererSize, targetW, targetH, target,
                  targets, outCanvas, pixelBuf, frameCounter, mounted, started,
                  rafPending, tick, resizeLog, nTicks, nResizes, renders,
                  blits, readbacksOK, threw, bw, fs, setup >>

\* The same expression on the result.
QuantizeAgain ==
  /\ qz.pc = "once"
  /\ qz' = [qz EXCEPT !.q2 = quantize(qz.q1, qz.L), !.pc = "twice"]
  /\ UNCHANGED << component, constWrite, innerW, innerH, width, height,
                  u_resolution, rendererSize, targetW, targetH, target,
                  targets, outCanvas, pixelBuf, frameCounter, mounted, started,
                  rafPending, tick, resizeLog, nTicks, nResizes, renders,
                  blits, readbacksOK, threw, bw, fs, setup >>

NextQ ==
  \/ QuantizeOnce
  \/ QuantizeAgain

SpecQ == InitQ /\ [][NextQ]_vars

(***************************************************************************)
(* The setup of ShaderBackground's effect body on its own, from the        *)
(* computation of the low-res size to the start of the loop, for a dot     *)
(* size and level counts written in place of the literals 2.5 and 8, 8, 4. *)
(***************************************************************************)

\* Dot sizes, as fractions: the code's 2.5, 1, values below 1, and negative ones.
DotSizes == { <<5, 2>>, <<1, 1>>, <<1, 2>>, <<0, 1>>, <<-1, 1>>, <<-5, 2>> }

\* Level counts <<levelsR, levelsG, levelsB>>: the code's, the least valid
\* ones, and ones with a count below 2.
LevelCounts == { <<8, 8, 4>>, <<2, 2, 2>>, <<1, 8, 4>>, <<8, 8, 0>> }

InitSetup ==
  \E d \in DotSizes, lv \in LevelCounts, sz \in WinSizes :
    /\ component = "none"
    /\ ShaderBackgroundIdle
    /\ bw = BWIdle
    /\ fs = FSIdle
    /\ qz = QIdle
    /\ setup = [SetupIdle EXCEPT !.dotsize = d, !.lv = lv, !.w = sz[1],
                                 !.h = sz[2], !.pc = "config"]

\* `let { tw: targetW, th: targetH } = makeTargetSize(width, height, dotsize)`.
SetupSize ==
  /\ setup.pc = "config"
  /\ LET s == makeTargetSize(setup.w, setup.h, setup.dotsize)
     IN  setup' = [setup EXCEPT !.tw = s.tw, !.th = s.th, !.pc = "sized"]
  /\ UNCHANGED << component, constWrite, innerW, innerH, width, height,
                  u_resolution, rendererSize, targetW, targetH, target,
                  targets, outCanvas, pixelBuf, frameCounter, mounted, started,
                  rafPending, tick, resizeLog, nTicks, nResizes, renders,
                  blits, readbacksOK, threw, bw, fs, qz >>

\* `new THREE.WebGLRenderTarget(targetW, targetH, ...)`, the sizing of
\* outCanvas and `new Uint8Array(targetW * targetH * 4)`.
SetupAllocate ==
  /\ setup.pc = "sized"
  /\ setup' = [setup EXCEPT !.allocated = TRUE,
                            !.bufLen = setup.tw * setup.th * 4,
                            !.pc = "allocated"]
  /\ UNCHANGED << component, constWrite, innerW, innerH, width, height,
                  u_resolution, rendererSize, targetW, targetH, target,
                  targets, outCanvas, pixelBuf, frameCounter, mounted, started,
                  rafPending, tick, resizeLog, nTicks, nResizes, renders,
                  blits, readbacksOK, threw, bw, fs, qz >>

\* The declarations of the level counts and the throttle, then `animate(0)`.
SetupStart ==
  /\ setup.pc = "allocated"
  /\ setup' = [setup EXCEPT !.pc = "running"]
  /\ UNCHANGED << component, constWrite, innerW, innerH, width, height,
                  u_resolution, rendererSize, targetW, targetH, target,
                  targets, outCanvas, pixelBuf, frameCounter, mounted, started,
                  rafPending, tick, resizeLog, nTicks, nResizes, renders,
                  blits, readbacksOK, threw, bw, fs, qz >>

NextSetup ==
  \/ SetupSize
  \/ SetupAllocate
  \/ SetupStart

SpecSetup == InitSetup /\ [][NextSetup]_vars

(***************************************************************************)
(* Claims about the ShaderBackground loop.                                 *)
(***************************************************************************)

\* C1: at the start of every Processing phase pixelBuf has length
\* targetW*targetH*4 and the Offscreen Target and the Output Buffer both
\* measure targetW x targetH, for the current (targetW, targetH).
C1_SizesMatchAtProcessing ==
  tick.processing =>
    /\ tick.atProc.bufLen = tick.atProc.tw * tick.atProc.th * 4
    /\ tick.atProc.targW = tick.atProc.tw /\ tick.atProc.targH = tick.atProc.th
    /\ tick.atProc.canvW = tick.atProc.tw /\ tick.atProc.canvH = tick.atProc.th

\* The tick logged in `tick` is one that ran after the most recent resize,
\* that resize changed (targetW, targetH), and its readback returned.
ProcessedAfterSizeChange ==
  /\ resizeLog.ran /\ resizeLog.sizeChanged
  /\ tick.ran /\ tick.resizeNo = nResizes
  /\ tick.readback = "ok"

\* C2: after a resize to (W, H) that changes (targetW, targetH) the next
\* processed tick does not throw and blits an Output Buffer of exactly
\* targetW x targetH pixels, targetW = floor(W/scale), targetH = floor(H/scale).
C2_ResizeThenProcess ==
  ProcessedAfterSizeChange =>
    LET scale == Max(1, Floor(u_dotsize[1], u_dotsize[2])) IN
    /\ ~tick.threw
    /\ tick.blitted
    /\ tick.blitW = targetW /\ tick.blitH = targetH
    /\ outCanvas.width = targetW /\ outCanvas.height = targetH
    /\ targetW = Floor(resizeLog.w, scale)
    /\ targetH = Floor(resizeLog.h, scale)

\* C3: while the component is mounted a tick is always pending.
C3_TickPendingWhileMounted ==
  (started /\ mounted) => rafPending >= 1

\* C4: a tick whose readback throws runs no diffusion and no blit, leaves
\* the Output Buffer and the pixel buffer as they were, lets no exception
\* escape and requests the next frame; and as long as no readback has ever
\* returned, nothing was blitted, nothing was thrown and, while mounted, a
\* tick is pending.
C4_ReadbackFailureSkips ==
  /\ tick.readback = "throws" =>
       /\ ~tick.diffused /\ ~tick.blitted /\ ~tick.threw
       /\ tick.scheduled /\ rafPending = 1
       /\ blits = tick.blitsBefore
       /\ pixelBuf.content = tick.bufBefore
  /\ (started /\ readbacksOK = 0) =>
       /\ blits = 0
       /\ ~threw
       /\ mounted => rafPending = 1

\* Witness of C4: three ticks have run, every readback threw, and the window
\* was resized to another low-res size in between.
C4_Witness ==
  /\ tick.readback = "throws"
  /\ renders >= 3 /\ readbacksOK = 0
  /\ resizeLog.ran /\ resizeLog.sizeChanged
  /\ mounted

\* C5: once the cleanup has run, no call of animate (ShaderBackground) or
\* of loop (BWDitheredGradient) renders, reads back, diffuses or blits, and
\* none requests a further frame, also when a frame callback was pending
\* when the cleanup ran.
C5_NothingAfterTeardown ==
  /\ []((component = "BWDitheredGradient" /\ ~bw.mounted) => bw.pending = {})
  /\ [][ /\ (component = "ShaderBackground" /\ started /\ ~mounted) =>
              /\ renders' = renders
              /\ readbacksOK' = readbacksOK
              /\ blits' = blits
              /\ pixelBuf' = pixelBuf
              /\ rafPending' <= rafPending
         /\ (component = "BWDitheredGradient" /\ ~bw.mounted) =>
              /\ bw'.renders = bw.renders
              /\ bw'.readbacks = bw.readbacks
              /\ bw'.blits = bw.blits
              /\ bw'.pending = {}
       ]_vars

\* Witness of C5: the cleanup ran while a frame callback of animate was
\* pending, and that callback has since run.
C5_Witness ==
  /\ component = "ShaderBackground"
  /\ started /\ ~mounted /\ ~threw
  /\ rafPending = 0
  /\ renders >= 2
\* C6: when allocating the replacement target fails in onResize, the
\* previous target has not been released, and the target, (targetW, targetH)
\* and the buffers are as before the resize.
C6_AllocFailureKeepsOldTarget ==
  (component = "ShaderBackground" /\ mounted
   /\ resizeLog.ran /\ resizeLog.allocFailed) =>
    /\ target = resizeLog.prevTarget
    /\ ~targets[resizeLog.prevTarget].disposed
    /\ targetW = resizeLog.prevW /\ targetH = resizeLog.prevH
    /\ outCanvas.width = resizeLog.prevW /\ outCanvas.height = resizeLog.prevH

\* C7: every Rendering and readback uses a target that has not been
\* released, and the Processing phase sees a target of the size
\* (targetW, targetH) it reads with.
C7_NoUseOfReleasedTarget ==
  tick.ran =>
    /\ ~tick.renderDisposed
    /\ tick.processing =>
         /\ tick.atProc.targW = tick.atProc.tw
         /\ tick.atProc.targH = tick.atProc.th

\* C8: once the cleanup has run, every target ever allocated has been
\* released.
C8_AllTargetsReleased ==
  (component = "ShaderBackground" /\ started /\ ~mounted) =>
    \A i \in DOMAIN targets : targets[i].disposed
(***************************************************************************)
(* Claims about the dither passes (checked under SpecFS).                  *)
(***************************************************************************)

\* The L evenly spaced palette values round(k * 255 / (L - 1)), k in 0..L-1.
Palette(L) == { Round(k * 255, L - 1) : k \in 0..(L - 1) }

\* C9: every R, G and B byte floydSteinbergRGBA leaves in the buffer is one
\* of the palette values of its channel's level count (R and G: 8 levels,
\* B: 4 levels), also when a running value had left [0, 255].
C9_OutputInPalette ==
  /\ Palette(8) = {0, 36, 73, 109, 146, 182, 219, 255}
  /\ (fs.variant = "floydSteinbergRGBA" /\ fs.pc = "done") =>
       \A i \in 0..(fs.w * fs.h - 1) :
         /\ fs.buf[i * 4 + 1] \in Palette(8)
         /\ fs.buf[i * 4 + 2] \in Palette(8)
         /\ fs.buf[i * 4 + 3] \in Palette(4)

\* Witness of C9: a finished pass over an image with w, h >= 2 during which a
\* running value was outside [0, 255].
C9_Witness ==
  /\ fs.variant = "floydSteinbergRGBA" /\ fs.pc = "done"
  /\ fs.w >= 2 /\ fs.h >= 2
  /\ fs.outside

\* The sum of the elements of a sequence of integers.
SumSeq(q) ==
  LET RECURSIVE S(_)
      S(k) == IF k = 0 THEN 0 ELSE S(k - 1) + q[k]
  IN  S(Len(q))

\* The Floyd-Steinberg kernel: <<dx, dy, weight in 16ths>>.
Kernel == { <<1, 0, 7>>, <<-1, 1, 3>>, <<0, 1, 5>>, <<1, 1, 1>> }

\* What the element at (ex, ey) is due from the pixel visited last: the
\* share of the kernel entry that points from (fs.vx, fs.vy) to it, if any.
Due(c, ex, ey) ==
  LET hits == { k \in Kernel : fs.vx + k[1] = ex /\ fs.vy + k[2] = ey } IN
  IF hits = {} THEN 0
  ELSE Share(fs.err[c], (CHOOSE k \in hits : TRUE)[3])

\* The pixel visited last has its four kernel neighbours inside the image.
VisitedInterior ==
  /\ fs.vx >= 0
  /\ \A k \in Kernel : ~Outside(fs.vx + k[1], fs.vy + k[2], fs.w, fs.h)

C11_QuantizeIdempotent ==
  qz.pc = "twice" => qz.q2 = qz.q1

\* A value that is not a level, at a level count that is not a power of two,
\* was quantized twice, and the first result is a level other than 0 and 255.
C11_Witness ==
  /\ qz.pc = "twice" /\ qz.L = 3
  /\ qz.q1 # qz.v
  /\ qz.q1 # 0 /\ qz.q1 # 255 * Den(qz.L)

(***************************************************************************)
(* Claims about the low-resolution size.                                   *)
(***************************************************************************)

\* C12: after mount and after any sequence of resize events, with (W, H) the
\* latest window size and the dot size 2.5, targetW is
\* max(2, floor(W / max(1, floor(2.5)))) and targetH likewise from H; both
\* are at least 2 in every state, also when W or H is 0 or below the dot size.
C12_TargetSizeFollowsWindow ==
  component = "ShaderBackground" =>
    LET fl == CHOOSE k \in 0..u_dotsize[1] :
                k * u_dotsize[2] <= u_dotsize[1] /\ u_dotsize[1] < (k + 1) * u_dotsize[2]
        sc == IF fl >= 1 THEN fl ELSE 1
        Lim(q) == IF q >= 2 THEN q ELSE 2
    IN  /\ targetW = Lim(innerW \div sc)
        /\ targetH = Lim(innerH \div sc)
        /\ targetW >= 2 /\ targetH >= 2

\* A resize from a larger window to the window 3x0 (width below the limit
\* after the division, height 0) has run, and both sizes sit at the limit.
C12_Witness ==
  /\ component = "ShaderBackground"
  /\ resizeLog.ran /\ resizeLog.prevW > 2
  /\ innerW = 3 /\ innerH = 0
  /\ targetW = 2 /\ targetH = 2

\* C13 as stated: for the window 1920x1080 and the dot size 2.5 the
\* low-resolution size is 768 x 432.
C13_FullHD_768x432 ==
  (component = "ShaderBackground" /\ innerW = 1920 /\ innerH = 1080) =>
    (targetW = 768 /\ targetH = 432)

\* C13, amended: for the window 1920x1080 and the dot size 2.5 the
\* low-resolution size is 960 x 540 (the scale is floor(2.5) = 2).
C13_FullHD_960x540 ==
  (component = "ShaderBackground" /\ innerW = 1920 /\ innerH = 1080) =>
    (targetW = 960 /\ targetH = 540)

\* The size was computed for a 1920x1080 window by a resize, with the dot
\* size 2.5.
C13_Witness ==
  /\ component = "ShaderBackground"
  /\ u_dotsize = <<5, 2>>
  /\ resizeLog.ran /\ resizeLog.w = 1920 /\ resizeLog.h = 1080
  /\ innerW = 1920 /\ innerH = 1080

(***************************************************************************)
(* Claims about the throttle and the display-resolution parameter.         *)
(***************************************************************************)

\* C14: every tick that runs while mounted renders, and it enters
\* Processing exactly when the throttle counter, advanced by one modulo
\* framesBetweenProcess on that tick, is zero, which is on the ticks
\* N, 2N, 3N, ... for N = framesBetweenProcess; with the code's N = 1 every
\* such tick is processed.
C14_ThrottleEveryNth ==
  tick.ran =>
    /\ renders = tick.rendersBefore + 1
    /\ frameCounter = renders % framesBetweenProcess
    /\ tick.processing <=> (frameCounter = 0)
    /\ tick.processing <=> (\E k \in 1..renders : renders = k * framesBetweenProcess)
    /\ tick.processing

\* The third tick that ran while mounted has rendered and was processed.
C14_Witness ==
  /\ tick.ran /\ tick.processing
  /\ renders = 3 /\ tick.rendersBefore = 2

\* C17: on every tick after a resize event to (W, H), until the next
\* resize, the u_resolution that the render of the tick reads is (W, H).
C17_ResolutionFollowsResize ==
  (resizeLog.ran /\ tick.ran /\ tick.resizeNo = nResizes) =>
    tick.resolution = <<resizeLog.w, resizeLog.h>>

(***************************************************************************)
(* Claims about the setup.                                                 *)
(***************************************************************************)

C16_ResizeSeenWholeOrNotAtAll ==
  (resizeLog.ran /\ tick.processing /\ tick.resizeNo = nResizes) =>
    LET new == makeTargetSize(resizeLog.w, resizeLog.h, u_dotsize)
        All(tw, th) ==
          /\ tick.atProc.tw = tw /\ tick.atProc.th = th
          /\ tick.atProc.targW = tw /\ tick.atProc.targH = th
          /\ tick.atProc.canvW = tw /\ tick.atProc.canvH = th
    IN  \/ All(new.tw, new.th)
        \/ /\ All(resizeLog.prevW, resizeLog.prevH)
           /\ tick.renderTarget = resizeLog.prevTarget

\* C19: after every resize event to (W, H) the Output Buffer measures
\* targetW x targetH pixels and is presented at W x H (CSS pixels), and a
\* tick leaves both as they were.
C19_CanvasSizesAfterResize ==
  /\ resizeLog.ran =>
       /\ outCanvas.width = targetW /\ outCanvas.height = targetH
       /\ outCanvas.styleW = Px(resizeLog.w)
       /\ outCanvas.styleH = Px(resizeLog.h)
  /\ (tick.processing /\ tick.resizeNo = nResizes) =>
       /\ outCanvas.width = tick.atProc.canvW
       /\ outCanvas.height = tick.atProc.canvH

(***************************************************************************)
(* Claims about the write-back.                                            *)
(***************************************************************************)

\* C18: in both passes every number the write-back assigns to a byte of the
\* pixel buffer is an integer in [0, 255], so the byte holds that number and
\* no store wraps modulo 256, whatever the input buffer.
C18_StoresAreBytes ==
  fs.pc = "done" =>
    \A i \in 1..Len(fs.stores) :
      LET num == fs.stores[i][1]
          den == fs.stores[i][2]
      IN  /\ num % den = 0
          /\ 0 <= num /\ num <= 255 * den
          /\ fs.buf[i] = num \div den

\* A pass of dither, whose write-back does not clamp, has finished on an
\* image in which a running value left [0, 255] during diffusion.
C18_Witness ==
  /\ fs.pc = "done" /\ fs.variant = "dither"
  /\ fs.outside
  /\ Len(fs.stores) = 4 * fs.w * fs.h

(***************************************************************************)
(* Claims about the loop of BWDitheredGradient.                            *)
(***************************************************************************)

\* C20: when the readback of a tick of BWDitheredGradient.loop throws, the
\* loop goes on: dithering and compositing are skipped for that tick, no
\* exception leaves loop and the next animation frame is requested.
C20_BWReadbackFailureSkips ==
  (component = "BWDitheredGradient" /\ bw.readback = "throws") =>
    /\ ~bw.processed
    /\ ~bw.threw
    /\ bw.scheduled
    /\ bw.mounted => bw.pending # {}

(***************************************************************************)
(* Claims about the order of the error writes.                             *)
(***************************************************************************)

\* The pixels visited so far: all of them once the loops have ended.
NumVisited ==
  IF fs.pc = "loop" THEN fs.y * fs.w + fs.x
  ELSE IF fs.pc \in {"write", "done"} THEN fs.w * fs.h
  ELSE 0

\* C21: in both passes, for every w >= 1 and h >= 1, a visit changes only
\* pixels strictly later in raster order, each of them a neighbour of the
\* visited pixel at (+1, 0), (-1, +1), (0, +1) or (+1, +1) inside the image
\* (never a pixel reached by running past the end of a row), and every
\* visited pixel keeps, to the end of the pass, the quantized values it took
\* when it was visited.
C21_ErrorGoesForward ==
  (fs.pc \in {"loop", "write", "done"}) =>
    \A c \in 1..3 :
      /\ \A i \in 1..NumVisited : fs.rgb[c][i] = fs.quant[c][i]
      /\ fs.vx >= 0 =>
           LET vidx == fs.vy * fs.w + fs.vx IN
           \A i \in 0..(fs.w * fs.h - 1) :
             (i # vidx /\ fs.rgb[c][i + 1] # fs.prev[c][i + 1]) =>
               /\ i > vidx
               /\ \E k \in Kernel :
                    /\ fs.vx + k[1] >= 0 /\ fs.vx + k[1] < fs.w
                    /\ fs.vy + k[2] < fs.h
                    /\ i = (fs.vy + k[2]) * fs.w + fs.vx + k[1]

\* The first pixel of the second row of a 3x2 image (its neighbour at
\* (-1, +1) is outside, the row above is visited) has been visited with a
\* nonzero error, and the last pixel of the row above holds a value that
\* is not its input.
C21_Witness ==
  /\ fs.pc = "loop" /\ fs.w = 3 /\ fs.h = 2
  /\ fs.vx = 0 /\ fs.vy = 1
  /\ fs.err[1] # 0
  /\ fs.rgb[1][3] # fs.input[9] * PlaneDen(fs.variant, 1)

(***************************************************************************)
(* Claims about the pending frame callbacks.                               *)
(***************************************************************************)

\* C22: in both loops at most one frame callback is pending in every state:
\* a tick requests the next frame at most once on each of its paths
\* (processed, skipped by the throttle, readback failed).
C22_AtMostOnePending ==
  /\ component = "ShaderBackground" => rafPending <= 1
  /\ component = "BWDitheredGradient" => Cardinality(bw.pending) <= 1

\* A frame callback of ShaderBackground (not the call that ends the effect)
\* took the path of the failed readback, and exactly one callback is pending.
C22_Witness ==
  /\ component = "ShaderBackground"
  /\ nTicks >= 1
  /\ tick.ran /\ tick.readback = "throws" /\ tick.scheduled
  /\ rafPending = 1

====
